---- MODULE Spec2Model ----
(***************************************************************************)
(* Dual-sink logger of varasheb/logger: InitLogger, Log, LogToDB, Close    *)
(* and captureStackTrace, in the two revisions the repository holds        *)
(* (main.go, and the earlier revision that has no Log and marshals the     *)
(* metadata without a nil check).                                          *)
(*                                                                         *)
(* Every operation is one action.  What an operation does to its           *)
(* collaborators is computed, in program order, as a sequence of effects   *)
(* (an append to the file sink, an execute on the pool); the action then   *)
(* applies the effects to the file sink and to the table and keeps them    *)
(* in the record of the call.                                              *)
(***************************************************************************)
EXTENDS Integers, Sequences, FiniteSets, TLC

\* Bounds of the model.
MaxCalls == 2
MaxCloses == 2
MaxNow == 1

\* Constants of the program.
DeviceIDLen == 16
FileIDLen == 64
MinSchemaLen == 3
CallerSkip == 2

VARIABLES
    revision,   \* which source file is built: "main" or "part_000"
    handle,     \* what the caller holds: "none", "logger", "error"
    logger,     \* the Logger struct: db, logger, processID, createdBy, schema, processName
    pool,       \* the pgx pool behind logger.db: "unopened", "open", "closed"
    provisioned,\* the statements InitLogger has run on the server, in order
    initTrace,  \* the steps InitLogger attempted, in order
    fileSink,   \* the lines of the log file, oldest first
    rows,       \* the rows of <schema>.fotadevicelogs
    now,        \* the server's clock, in milliseconds
    call,       \* the last call: operation, arguments, effects in order, outcome
    nCalls,     \* Log and LogToDB calls made
    nCloses     \* Close calls made

vars == <<revision, handle, logger, pool, provisioned, initTrace, fileSink, rows,
          now, call, nCalls, nCloses>>

Revisions == {"main", "part_000"}

----------------------------------------------------------------------------
\* Text.  A level or a status is a sequence of characters, so that
\* strings.ToLower is computed character by character.

Upper == <<"A","B","C","D","E","F","G","H","I","J","K","L","M",
           "N","O","P","Q","R","S","T","U","V","W","X","Y","Z">>
Lower == <<"a","b","c","d","e","f","g","h","i","j","k","l","m",
           "n","o","p","q","r","s","t","u","v","w","x","y","z">>

ToLowerChar(c) ==
    IF \E i \in DOMAIN Upper : Upper[i] = c
    THEN Lower[CHOOSE i \in DOMAIN Upper : Upper[i] = c]
    ELSE c

\* A ToLower that leaves its argument as it is.
ToLowerNone(s) == s

ToLower(s) == [i \in 1..Len(s) |-> ToLowerChar(s[i])]

RECURSIVE Str(_)
Str(s) == IF s = <<>> THEN "" ELSE Head(s) \o Str(Tail(s))

----------------------------------------------------------------------------
\* Values the callers pass.

NilErr == "<nil>"
Errs == {NilErr, "connection timeout"}

\* metadata interface{}: the nil interface, a nil map held in the interface,
\* a map with one entry, a value encoding/json cannot encode.
Metadatas == {"nil", "nilmap", "map", "chan"}

ValidDeviceID == "0101FCED8C5C2AE2"
ValidFileID == "00064467DD629E36C838C3E94F20A490A96B4DB084FA300C3DD64D5D45949DE9"
DeviceIDs == {ValidDeviceID, "short"}
FileIDs == {ValidFileID, "00064467DD629E36"}

LogLevels ==
    { <<"I","N","F","O">>, <<"I","n","f","o">>, <<"i","n","f","o">>,
      <<"W","A","R","N">>, <<"e","r","r","o","r">>, <<"D","e","b","u","g">>,
      <<"t","r","a","c","e">> }

\* The first call of the repository's demo, with an upper-case status.
BaseCall ==
    [ deviceID |-> ValidDeviceID, fileID |-> ValidFileID,
      logLevel |-> <<"I","N","F","O">>, status |-> <<"O","K">>,
      metadata |-> "map", err |-> NilErr ]

\* The calls made: the base call with one argument changed, every metadata
\* with and without an error, and the short device id with no metadata.
Calls ==
    UNION {
      { [BaseCall EXCEPT !.deviceID = d] : d \in DeviceIDs },
      { [BaseCall EXCEPT !.fileID = f] : f \in FileIDs },
      { [BaseCall EXCEPT !.logLevel = l] : l \in LogLevels },
      { [BaseCall EXCEPT !.metadata = m, !.err = e] : m \in Metadatas, e \in Errs },
      { [BaseCall EXCEPT !.deviceID = "short", !.metadata = "nil"] },
      { [BaseCall EXCEPT !.deviceID = "short", !.err = "connection timeout"] } }

\* The stack of the code that calls the logger: the call site in testLogger
\* and testLogger's own call site in main.
UserStack ==
    << [file |-> "logdemo_test.go", line |-> 24],
       [file |-> "logdemo_test.go", line |-> 38] >>

\* What happens to an execute on the server side.
Faults == {"none", "timeout"}

----------------------------------------------------------------------------
\* Effects, in program order.

FileLine(text) ==
    [kind |-> "append", text |-> text, params |-> <<>>, err |-> "", createdat |-> 0]

DbExec(query, params, dbErr, at) ==
    [kind |-> "exec", text |-> query, params |-> params, err |-> dbErr, createdat |-> at]

Capture(c) ==
    [kind |-> "capture", text |-> c.text,
     params |-> IF c.inspected THEN <<c.file, c.line>> ELSE <<>>,
     err |-> "", createdat |-> 0]

PoolCloseCall ==
    [kind |-> "poolclose", text |-> "", params |-> <<>>, err |-> "", createdat |-> 0]

Return ==
    [kind |-> "return", text |-> "", params |-> <<>>, err |-> "", createdat |-> 0]

IsLine(e) == e.kind = "append"
IsExec(e) == e.kind = "exec"
IsCapture(e) == e.kind = "capture"

\* The lines a sequence of effects adds to the file sink, in order.
Lines(effs) ==
    LET w == SelectSeq(effs, IsLine) IN [i \in 1..Len(w) |-> w[i].text]

\* The row the server stores for the nine parameters of the insert; createdat
\* is the column default, the server's clock.
InsertRow(params, at) ==
    [ processid |-> params[1], processname |-> params[2], deviceid |-> params[3],
      fileid |-> params[4], loglevel |-> params[5], status |-> params[6],
      createdby |-> params[7], errormessage |-> params[8], metadata |-> params[9],
      createdat |-> at ]

PrimaryKey(r) == <<r.processid, r.deviceid, r.fileid, r.processname, r.createdat>>

\* The rows a sequence of effects adds to the table.
Inserted(effs) ==
    LET x == SelectSeq(effs, LAMBDA e : IsExec(e) /\ e.err = "")
    IN { InsertRow(x[i].params, x[i].createdat) : i \in 1..Len(x) }

----------------------------------------------------------------------------
\* captureStackTrace.  stack[1] is the frame of captureStackTrace itself,
\* stack[2] its caller's call site, and so on: runtime.Caller(skip) reads
\* stack[skip + 1].

SourceFile == IF revision = "main" THEN "main.go" ELSE "part_000"

RuntimeCaller(stack, skip) ==
    IF skip + 1 <= Len(stack)
    THEN [ok |-> TRUE, file |-> stack[skip + 1].file, line |-> stack[skip + 1].line]
    ELSE [ok |-> FALSE, file |-> "", line |-> 0]

captureStackTrace(err, stack) ==
    IF err = NilErr
    THEN [text |-> "", inspected |-> FALSE, file |-> "", line |-> 0]
    ELSE LET c == RuntimeCaller(stack, CallerSkip) IN
         IF c.ok
         THEN [text |-> "Error: " \o err \o " | File: " \o c.file
                        \o " | Line: " \o ToString(c.line),
               inspected |-> TRUE, file |-> c.file, line |-> c.line]
         ELSE [text |-> "Error: " \o err, inspected |-> TRUE, file |-> "", line |-> 0]

\* The frame of captureStackTrace and the call site in its caller.
CaptureFrame == [file |-> SourceFile, line |-> IF revision = "main" THEN 172 ELSE 135]
LogCaptureSite == [file |-> SourceFile, line |-> 259]
LogToDBCaptureSite == [file |-> SourceFile, line |-> IF revision = "main" THEN 204 ELSE 167]
LogToDBCallSite == [file |-> SourceFile, line |-> 264]

----------------------------------------------------------------------------
\* LogToDB.

\* A fifth level in the table.
validLogLevelsWithTrace ==
    { <<"i","n","f","o">>, <<"w","a","r","n">>, <<"e","r","r","o","r">>,
      <<"d","e","b","u","g">>, <<"t","r","a","c","e">> }

validLogLevels ==
    { <<"i","n","f","o">>, <<"w","a","r","n">>, <<"e","r","r","o","r">>,
      <<"d","e","b","u","g">> }

\* The length check with "and" for "or": one good id is enough.
ValidIDsEither(deviceID, fileID) ==
    ~(Len(deviceID) # DeviceIDLen /\ Len(fileID) # FileIDLen)

ValidIDs(deviceID, fileID) == ~(Len(deviceID) # DeviceIDLen \/ Len(fileID) # FileIDLen)

\* encoding/json on the metadata values of the model.
jsonMarshal(metadata) ==
    CASE metadata = "nil"    -> [bytes |-> "null", err |-> NilErr]
      [] metadata = "nilmap" -> [bytes |-> "null", err |-> NilErr]
      [] metadata = "map"    -> [bytes |-> "{\"testmeta\":\"testvalue\"}", err |-> NilErr]
      [] metadata = "chan"   -> [bytes |-> "", err |-> "json: unsupported type: chan int"]

compressedMetadata(metadata) ==
    IF revision = "main"
    THEN IF metadata = "nil"
         THEN [bytes |-> "{}", err |-> NilErr]
         ELSE jsonMarshal(metadata)
    ELSE jsonMarshal(metadata)

InsertQuery(schema) ==
    IF revision = "main"
    THEN "INSERT INTO \"" \o schema \o "\".fotadevicelogs"
    ELSE "INSERT INTO " \o schema \o ".fotadevicelogs"

\* The pool's Exec of the insert: the error it returns, "" for none.  A closed
\* pool refuses; the statement may run out of its deadline; the table's
\* primary key refuses a second row with the same key.
PoolExec(params, fault) ==
    IF pool # "open" THEN "closed pool"
    ELSE IF fault = "timeout" THEN "timeout: context deadline exceeded"
    ELSE IF \E r \in rows : PrimaryKey(r) = PrimaryKey(InsertRow(params, now))
         THEN "duplicate key value violates unique constraint"
         ELSE ""

\* A failed insert that is tried once more before it is given up.
InsertOutcomeRetry(dbErr) ==
    IF dbErr # ""
    THEN << DbExec("retry", << >>, dbErr, now),
            FileLine("Failed to insert log into DB: " \o dbErr) >>
    ELSE << >>

\* After the Exec: a failed insert is one line in the file, nothing else.
InsertOutcome(dbErr) ==
    IF dbErr # ""
    THEN << FileLine("Failed to insert log into DB: " \o dbErr) >>
    ELSE << >>

LogToDB(deviceID, fileID, logLevel, status, metadata, err, callers, fault) ==
    IF logger.db = "nil"
    THEN << FileLine("DB logging skipped: No database connection") >>
    ELSE
    LET level == ToLower(logLevel)
        stat == ToLower(status)
    IN
    IF ~ValidIDs(deviceID, fileID)
    THEN << FileLine("Invalid log: Device ID must be 16 digits, File ID must be 64 digits") >>
    ELSE IF level \notin validLogLevels
    THEN << FileLine("Invalid log: Log level must be one of: info, warn, error, debug") >>
    ELSE
    LET errorDetails ==
            captureStackTrace(err, <<CaptureFrame, LogToDBCaptureSite>> \o callers)
        md == compressedMetadata(metadata)
    IN
    IF md.err # NilErr
    THEN << Capture(errorDetails), FileLine("Failed to compress metadata: " \o md.err) >>
    ELSE
    LET params == << logger.processID, logger.processName, deviceID, fileID,
                     Str(level), Str(stat), logger.createdBy,
                     errorDetails.text, md.bytes >>
        dbErr == PoolExec(params, fault)
    IN << Capture(errorDetails), DbExec(InsertQuery(logger.schema), params, dbErr, now) >>
       \o InsertOutcome(dbErr)

----------------------------------------------------------------------------
\* Log (main.go only).

LogMessage(deviceID, fileID, logLevel, status) ==
    "[" \o Str(logLevel) \o "] Device: " \o deviceID \o ", File: " \o fileID
        \o ", Status: " \o Str(status)

\* A Log that writes its line after the database write.
LogAfterDB(deviceID, fileID, logLevel, status, metadata, err, callers, fault) ==
    LET stackTrace == captureStackTrace(err, <<CaptureFrame, LogCaptureSite>> \o callers)
        logMessage == LogMessage(deviceID, fileID, logLevel, status)
    IN  LogToDB(deviceID, fileID, logLevel, status, metadata, err,
                <<LogToDBCallSite>> \o callers, fault)
        \o (IF err # NilErr
            THEN << Capture(stackTrace), FileLine(logMessage \o " | " \o stackTrace.text) >>
            ELSE << FileLine(logMessage) >>)
        \o << Return >>

Log(deviceID, fileID, logLevel, status, metadata, err, callers, fault) ==
    LET stackTrace == captureStackTrace(err, <<CaptureFrame, LogCaptureSite>> \o callers)
        logMessage == LogMessage(deviceID, fileID, logLevel, status)
    IN  (IF err # NilErr
         THEN << Capture(stackTrace), FileLine(logMessage \o " | " \o stackTrace.text) >>
         ELSE << FileLine(logMessage) >>)
        \o LogToDB(deviceID, fileID, logLevel, status, metadata, err,
                   <<LogToDBCallSite>> \o callers, fault)
        \o << Return >>

----------------------------------------------------------------------------
\* Close.

\* A Close that releases the pool's resources whether or not they were
\* released before: the second release panics.
Panic ==
    [kind |-> "panic", text |-> "", params |-> <<>>, err |-> "", createdat |-> 0]

CloseNotOnce ==
    IF logger.db # "nil"
    THEN IF pool = "closed" THEN << PoolCloseCall, Panic >> ELSE << PoolCloseCall, Return >>
    ELSE << Return >>

Close == IF logger.db # "nil" THEN << PoolCloseCall, Return >> ELSE << Return >>

\* pgxpool.Pool.Close closes once; a second Close finds the pool closed and
\* does nothing.
Closed(p, effs) ==
    IF \E i \in DOMAIN effs : effs[i].kind = "poolclose" THEN "closed" ELSE p

----------------------------------------------------------------------------
\* InitLogger.

NilLogger ==
    [ db |-> "nil", logger |-> <<>>, processID |-> "", createdBy |-> "",
      schema |-> "", processName |-> "" ]

HasSuffix(path, suffix) == path # <<>> /\ path[Len(path)] = suffix

\* filepath.Join(dir, "applogs.log")
JoinAppLogs(dir) == dir \o <<"/", "applogs", ".log">>

\* What can go wrong in InitLogger: nothing, or one of its calls fails.
InitFaults == {"none", "Getwd", "New", "Ping", "CreateSchema", "CreateTable"}

\* A call InitLogger made, and whether it succeeded.
Did(step, fail) == [step |-> step, ok |-> fail # step]

\* The check left out after the create-table statement.
CallFailedButTable(step, fail) == fail = step /\ step # "CreateTable"

\* The check InitLogger makes after a call: err != nil.
CallFailed(step, fail) == fail = step

\* The statements among the steps that the server ran.
Statements(steps, schema) ==
    LET ddl == SelectSeq(steps, LAMBDA d : d.ok /\ d.step \in {"CreateSchema", "CreateTable"})
    IN [ i \in 1..Len(ddl) |->
           IF ddl[i].step = "CreateSchema"
           THEN "CREATE SCHEMA IF NOT EXISTS " \o schema
           ELSE "CREATE TABLE IF NOT EXISTS " \o schema \o ".fotadevicelogs" ]

InitLogger(processName, createdBy, logFilePath, schema, pid, cwd, fail) ==
    LET defaultSchema == IF Len(schema) <= MinSchemaLen THEN "public" ELSE schema
        path == IF logFilePath = <<>>
                THEN JoinAppLogs(cwd)
                ELSE IF ~HasSuffix(logFilePath, ".log")
                     THEN JoinAppLogs(logFilePath)
                     ELSE logFilePath
        pre == IF logFilePath = <<>> THEN << Did("Getwd", fail) >> ELSE << >>
        new == pre \o << Did("New", fail) >>
        ping == new \o << Did("Ping", fail) >>
        mkschema == ping \o << Did("CreateSchema", fail) >>
        mktable == mkschema \o << Did("CreateTable", fail) >>
        Fails(steps, msg, p) ==
            [ handle |-> "error", err |-> msg, logger |-> NilLogger,
              steps |-> steps, pool |-> p,
              provisioned |-> Statements(steps, defaultSchema) ]
    IN
    IF logFilePath = <<>> /\ CallFailed("Getwd", fail)
    THEN Fails(pre, "failed to get current directory", "unopened")
    ELSE IF CallFailed("New", fail)
    THEN Fails(new, "database connection failed", "unopened")
    ELSE IF CallFailed("Ping", fail)
    THEN Fails(ping, "database ping failed", "open")
    ELSE IF CallFailed("CreateSchema", fail)
    THEN Fails(mkschema, "failed to create schema", "open")
    ELSE IF CallFailed("CreateTable", fail)
    THEN Fails(mktable, "failed to create log table", "open")
    ELSE [ handle |-> "logger", err |-> NilErr,
           logger |-> [ db |-> "pool", logger |-> path, processID |-> pid,
                        processName |-> processName, createdBy |-> createdBy,
                        schema |-> defaultSchema ],
           steps |-> mktable, pool |-> "open",
           provisioned |-> Statements(mktable, defaultSchema) ]

\* The arguments of the demo's InitLogger call, and the empty file path.
ProcessName == "rivertest"
CreatedBy == "TestUser"
Schema == "fotalogs"
Pid == "4242"
Cwd == <<"/", "srv">>
LogFilePaths == { <<"app", ".log">>, <<>> }

----------------------------------------------------------------------------
\* The state machine.

NoArgs ==
    [ deviceID |-> "", fileID |-> "", logLevel |-> <<>>, status |-> <<>>,
      metadata |-> "", err |-> NilErr ]

Init ==
    /\ revision \in Revisions
    /\ handle = "none"
    /\ logger = NilLogger
    /\ pool = "unopened"
    /\ provisioned = <<>>
    /\ initTrace = <<>>
    /\ fileSink = <<>>
    /\ rows = {}
    /\ now = 0
    /\ call = [op |-> "none", args |-> NoArgs, trace |-> <<>>]
    /\ nCalls = 0
    /\ nCloses = 0

\* The effects of a call, applied to the file, the table and the pool.
Apply(op, args, effs) ==
    /\ fileSink' = fileSink \o Lines(effs)
    /\ rows' = rows \cup Inserted(effs)
    /\ pool' = Closed(pool, effs)
    /\ call' = [op |-> op, args |-> args, trace |-> effs]

InitLoggerCall ==
    /\ handle = "none"
    /\ \E path \in LogFilePaths, fail \in InitFaults :
         LET r == InitLogger(ProcessName, CreatedBy, path, Schema, Pid, Cwd, fail) IN
         /\ fail = "Getwd" => path = <<>>
         /\ handle' = r.handle
         /\ logger' = r.logger
         /\ pool' = r.pool
         /\ provisioned' = r.provisioned
         /\ initTrace' = r.steps
         /\ call' = [op |-> "InitLogger", args |-> NoArgs, trace |-> <<>>]
    /\ UNCHANGED <<revision, fileSink, rows, now, nCalls, nCloses>>

\* A Logger built inside the package with a file logger and no pool.
LoggerWithoutPool ==
    /\ handle = "none"
    /\ handle' = "logger"
    /\ logger' = [NilLogger EXCEPT !.logger = <<"app", ".log">>, !.processID = Pid,
                                   !.processName = ProcessName,
                                   !.createdBy = CreatedBy, !.schema = "public"]
    /\ call' = [op |-> "literal", args |-> NoArgs, trace |-> <<>>]
    /\ UNCHANGED <<revision, pool, provisioned, initTrace, fileSink, rows, now,
                   nCalls, nCloses>>

LogCall ==
    /\ revision = "main"
    /\ handle = "logger"
    /\ nCalls < MaxCalls
    /\ \E a \in Calls, fault \in Faults :
         Apply("Log", a,
               Log(a.deviceID, a.fileID, a.logLevel, a.status, a.metadata, a.err,
                   UserStack, fault))
    /\ nCalls' = nCalls + 1
    /\ UNCHANGED <<revision, handle, logger, provisioned, initTrace, now, nCloses>>

\* The revision without Log: its callers call LogToDB themselves.
LogToDBCall ==
    /\ revision = "part_000"
    /\ handle = "logger"
    /\ nCalls < MaxCalls
    /\ \E a \in Calls, fault \in Faults :
         Apply("LogToDB", a,
               LogToDB(a.deviceID, a.fileID, a.logLevel, a.status, a.metadata, a.err,
                       UserStack, fault) \o << Return >>)
    /\ nCalls' = nCalls + 1
    /\ UNCHANGED <<revision, handle, logger, provisioned, initTrace, now, nCloses>>

CloseCall ==
    /\ handle = "logger"
    /\ nCloses < MaxCloses
    /\ Apply("Close", NoArgs, Close)
    /\ nCloses' = nCloses + 1
    /\ UNCHANGED <<revision, handle, logger, provisioned, initTrace, now, nCalls>>

\* A millisecond passes on the server.  Only the time since the last stored
\* row matters to the program, so the clock is followed from the first row on.
Tick ==
    /\ handle = "logger"
    /\ now < MaxNow
    /\ \E r \in rows : r.createdat = now
    /\ now' = now + 1
    /\ UNCHANGED <<revision, handle, logger, pool, provisioned, initTrace, fileSink,
                   rows, call, nCalls, nCloses>>

Next ==
    \/ InitLoggerCall
    \/ LoggerWithoutPool
    \/ LogCall
    \/ LogToDBCall
    \/ CloseCall
    \/ Tick

Spec == Init /\ [][Next]_vars

----------------------------------------------------------------------------
\* What the properties below say about a call, stated without the operators
\* of the program above.

\* The lower-case text of the levels and statuses the callers pass.
LowerText(t) ==
    CASE t = <<"I","N","F","O">> -> "info"
      [] t = <<"I","n","f","o">> -> "info"
      [] t = <<"i","n","f","o">> -> "info"
      [] t = <<"W","A","R","N">> -> "warn"
      [] t = <<"e","r","r","o","r">> -> "error"
      [] t = <<"D","e","b","u","g">> -> "debug"
      [] t = <<"t","r","a","c","e">> -> "trace"
      [] t = <<"O","K">> -> "ok"

\* The three conditions for a record to be persisted.
PassesValidation(a) ==
    /\ Len(a.deviceID) = 16
    /\ Len(a.fileID) = 64
    /\ LowerText(a.logLevel) \in {"info", "warn", "error", "debug"}

Serializable(a) == a.metadata # "chan"

\* The line of the event: '[<logLevel>] Device: <deviceID>, File: <fileID>,
\* Status: <status>', then the error and the place Log was called from.
EventLine(a) ==
    "[" \o Str(a.logLevel) \o "] Device: " \o a.deviceID \o ", File: " \o a.fileID
        \o ", Status: " \o Str(a.status)
        \o (IF a.err = NilErr THEN ""
            ELSE " | Error: " \o a.err \o " | File: logdemo_test.go | Line: 24")

SkippedLine == "DB logging skipped: No database connection"

ValidationLines ==
    { "Invalid log: Device ID must be 16 digits, File ID must be 64 digits",
      "Invalid log: Log level must be one of: info, warn, error, debug" }

InsertFailureLine(dbErr) == "Failed to insert log into DB: " \o dbErr

At(t, kind) == { i \in DOMAIN t : t[i].kind = kind }
First(S) == CHOOSE i \in S : \A j \in S : i <= j
Returned(t) == t # <<>> /\ t[Len(t)].kind = "return" /\ At(t, "panic") = {}

\* The file ends with the lines of the last call.
SinkEndsWith(ls) ==
    /\ Len(ls) <= Len(fileSink)
    /\ SubSeq(fileSink, Len(fileSink) - Len(ls) + 1, Len(fileSink)) = ls

----------------------------------------------------------------------------
\* C1: every Log call appends exactly one line of the event to the file, and
\* appends it before any execute on the pool and before any other line of the
\* call, whatever the pool, the validation, the serialization or the insert do.
C1_EventLineFirst ==
    call.op = "Log" =>
        LET t == call.trace
            lines == At(t, "append")
        IN  /\ lines # {}
            /\ t[First(lines)].text = EventLine(call.args)
            /\ \A j \in (lines \cup At(t, "exec")) \ {First(lines)} :
                  /\ j > First(lines)
                  /\ t[j].text # EventLine(call.args)
            /\ SinkEndsWith(Lines(t))

\* A Log call with an error and a metadata that cannot be serialized.
C1_Witness ==
    /\ call.op = "Log"
    /\ call.args.metadata = "chan"
    /\ call.args.err # NilErr
    /\ Len(Lines(call.trace)) = 2
    /\ fileSink[Len(fileSink) - 1] = EventLine(call.args)

\* C2: on a logger with a pool, the execute is invoked only for a 16-character
\* device id, a 64-character file id and a level that is info, warn, error or
\* debug in lower case; when one of the three fails there is no execute and
\* the call's last line is a diagnostic of the validation; with the three met,
\* in any casing of the level, and a serializable metadata, there is an execute.
C2_ExecuteOnlyWhenValid ==
    (call.op \in {"Log", "LogToDB"} /\ logger.db = "pool") =>
        LET t == call.trace
            ls == Lines(t)
        IN  /\ At(t, "exec") # {} => PassesValidation(call.args)
            /\ ~PassesValidation(call.args) =>
                  /\ At(t, "exec") = {}
                  /\ ls # <<>>
                  /\ ls[Len(ls)] \in ValidationLines
            /\ (PassesValidation(call.args) /\ Serializable(call.args)) =>
                  At(t, "exec") # {}

\* A call with the level "Info" that reached the execute.
C2_Witness ==
    /\ call.op \in {"Log", "LogToDB"}
    /\ call.args.logLevel = <<"I","n","f","o">>
    /\ At(call.trace, "exec") # {}

\* C3: when the insert fails or times out in Log, the line of the event was
\* written before the execute, one line about the failure follows it, there
\* is one execute, no row is added, and Log returns.
C3_FailedInsertAbandoned ==
    [][ ( /\ nCalls' = nCalls + 1
          /\ call'.op = "Log"
          /\ \E i \in At(call'.trace, "exec") : call'.trace[i].err # "" )
        => LET t == call'.trace
               x == First(At(t, "exec"))
           IN  /\ Cardinality(At(t, "exec")) = 1
               /\ Lines(t) = << EventLine(call'.args), InsertFailureLine(t[x].err) >>
               /\ \E i, j \in At(t, "append") : i < x /\ x < j
               /\ fileSink' = fileSink \o Lines(t)
               /\ rows' = rows
               /\ Returned(t) ]_vars

\* A Log call whose insert ran out of its deadline.
C3_Witness ==
    /\ call.op = "Log"
    /\ \E i \in At(call.trace, "exec") :
          call.trace[i].err = "timeout: context deadline exceeded"
    /\ Len(Lines(call.trace)) = 2

\* C4: for every accepted record whose metadata argument is nil, the metadata
\* passed to the insert is the empty document '{}', never null, in both
\* revisions of LogToDB.
C4_NilMetadataIsEmptyDocument ==
    (call.op \in {"Log", "LogToDB"} /\ call.args.metadata = "nil") =>
        \A i \in At(call.trace, "exec") : call.trace[i].params[9] = "{}"

\* C5, as stated: every accepted Log call on a reachable database inserts
\* exactly one row, with the identity fixed at InitLogger, the ids of the
\* call, the level and the status in lower case, an empty errormessage when
\* err is nil, and the server's createdat.
Reachable(t) ==
    \A i \in At(t, "exec") : t[i].err \notin {"closed pool", "timeout: context deadline exceeded"}

RowOf(r, a) ==
    /\ r.processid = Pid
    /\ r.processname = ProcessName
    /\ r.createdby = CreatedBy
    /\ r.deviceid = a.deviceID
    /\ r.fileid = a.fileID
    /\ r.loglevel = LowerText(a.logLevel)
    /\ r.status = LowerText(a.status)
    /\ a.err = NilErr => r.errormessage = ""

AcceptedLogStep ==
    /\ nCalls' = nCalls + 1
    /\ call'.op = "Log"
    /\ PassesValidation(call'.args)
    /\ Serializable(call'.args)
    /\ pool = "open"
    /\ Reachable(call'.trace)

OneRowInserted ==
    \E r \in rows' \ rows :
        /\ rows' = rows \cup {r}
        /\ RowOf(r, call'.args)
        /\ r.createdat = now

C5_OneRowPerAcceptedCall == [][ AcceptedLogStep => OneRowInserted ]_vars

\* C5, amended: the same, for a call whose primary key (processid, deviceid,
\* fileid, processname, createdat) is not the key of a stored row; when it is,
\* the insert is refused, no row is added and the refusal is one line in the
\* file.  Log and Close leave the Logger's fields as InitLogger set them.
KeyStored(a) ==
    \E r \in rows : PrimaryKey(r) = <<Pid, a.deviceID, a.fileID, ProcessName, now>>

C5_OneRowUnlessKeyStored ==
    [][ /\ (AcceptedLogStep /\ ~KeyStored(call'.args)) => OneRowInserted
        /\ (AcceptedLogStep /\ KeyStored(call'.args)) =>
              /\ rows' = rows
              /\ Len(Lines(call'.trace)) = 2
        /\ (nCalls' = nCalls + 1 \/ nCloses' = nCloses + 1) => logger' = logger ]_vars

\* The second accepted Log call of a logger, with an upper-case level, a
\* millisecond after the first: two rows.
C5_Witness ==
    /\ call.op = "Log"
    /\ nCalls = 2
    /\ call.args.logLevel = <<"W","A","R","N">>
    /\ Cardinality(rows) = 2
    /\ \E r \in rows : r.loglevel = "warn" /\ r.status = "ok" /\ r.createdat = 1

\* C6: InitLogger returns a Logger only after pool construction, ping, create
\* schema and create table succeeded, in that order; when one of them fails
\* it returns an error and no Logger and attempts nothing after it.
InitOrder == <<"New", "Ping", "CreateSchema", "CreateTable">>

C6_InitAllOrNothing ==
    initTrace # <<>> =>
        LET core == SelectSeq(initTrace, LAMBDA d : d.step # "Getwd") IN
        /\ Len(core) <= Len(InitOrder)
        /\ \A i \in DOMAIN core : core[i].step = InitOrder[i]
        /\ \A i \in DOMAIN initTrace : i < Len(initTrace) => initTrace[i].ok
        /\ handle \in {"logger", "error"}
        /\ handle = "logger" <=>
              (Len(core) = Len(InitOrder) /\ \A i \in DOMAIN initTrace : initTrace[i].ok)
        /\ handle = "logger" =>
              /\ logger.db = "pool"
              /\ pool # "unopened"
              /\ logger.logger # <<>>
              /\ Len(provisioned) = 2
        /\ handle = "error" => logger = NilLogger

\* An InitLogger whose create-schema statement failed.
C6_Witness ==
    /\ handle = "error"
    /\ Len(initTrace) = 3
    /\ initTrace[3] = [step |-> "CreateSchema", ok |-> FALSE]

\* C7: Close after any Log and Close calls, a second Close in a row and a
\* Close of a logger without a pool included, does not panic, leaves the pool
\* released and neither closes nor writes the file.
C7_CloseIdempotent ==
    [][ nCloses' = nCloses + 1 =>
          /\ call'.op = "Close"
          /\ Returned(call'.trace)
          /\ At(call'.trace, "append") = {}
          /\ fileSink' = fileSink
          /\ rows' = rows
          /\ logger' = logger
          /\ logger.db = "pool" => pool' = "closed"
          /\ logger.db = "nil" => pool' = pool ]_vars

\* A second Close, after a Log call and a first Close.
C7_Witness ==
    /\ call.op = "Close"
    /\ nCloses = 2
    /\ nCalls = 1
    /\ pool = "closed"
    /\ Returned(call.trace)

\* C8, as stated: a record that fails the validation is dropped before any
\* I/O: the Log call writes one diagnostic line and nothing else.
C8_OnlyOneLineWhenInvalid ==
    (call.op = "Log" /\ ~PassesValidation(call.args)) =>
        /\ Len(Lines(call.trace)) = 1
        /\ At(call.trace, "exec") = {}

\* C8, amended: a record that fails the validation is dropped before any
\* database I/O: the Log call writes the line of the event and then one
\* diagnostic line, nothing else, no execute is invoked, and Log returns.
C8_EventLineAndOneDiagnostic ==
    (call.op = "Log" /\ ~PassesValidation(call.args)) =>
        LET ls == Lines(call.trace) IN
        /\ Len(ls) = 2
        /\ ls[1] = EventLine(call.args)
        /\ ls[2] \in ValidationLines \cup {SkippedLine}
        /\ logger.db = "pool" => ls[2] \in ValidationLines
        /\ SinkEndsWith(ls)
        /\ At(call.trace, "exec") = {}
        /\ Returned(call.trace)

\* Log("short", <64 characters>, "INFO", "OK", nil, nil) on a logger with a pool.
C8_Witness ==
    /\ call.op = "Log"
    /\ logger.db = "pool"
    /\ call.args.deviceID = "short"
    /\ call.args.metadata = "nil"
    /\ Len(Lines(call.trace)) = 2

\* C9: whenever the pool is not configured or not available at a Log call,
\* after Close included, Log writes the line of the event and the 'DB logging
\* skipped' line and invokes no execute.
C9_SkippedWithoutPool ==
    (call.op = "Log" /\ (logger.db = "nil" \/ pool # "open")) =>
        /\ Lines(call.trace) = << EventLine(call.args), SkippedLine >>
        /\ At(call.trace, "exec") = {}

\* C10: for a Log call with an error, both captures, the one for the line in
\* the file and the one for the row's errormessage, name the place Log was
\* called from; with no error no capture inspects a frame.
C10_CapturesNameLogsCaller ==
    call.op = "Log" =>
        \A i \in At(call.trace, "capture") :
            IF call.args.err = NilErr
            THEN call.trace[i].params = << >> /\ call.trace[i].text = ""
            ELSE call.trace[i].params = << UserStack[1].file, UserStack[1].line >>

====
